---- MODULE Spec2Model ----
(***************************************************************************)
(* A model of the two ThirdParty speech services:                          *)
(*   services/speaker_embedder/app.py  (POST /embed, POST /verify)         *)
(*   services/pyannote/app.py          (POST /diarize, GET /health)        *)
(*                                                                         *)
(* One behaviour is the life of ONE server process, which is one of the    *)
(* two programs (variable service).  Every handler is an `async def`       *)
(* coroutine on the process's single event loop: a coroutine is suspended  *)
(* only at an `await`, and everything between two awaits runs without any  *)
(* other coroutine of the process running (variable running).  Each        *)
(* handler awaits only while it reads its upload, so a request is split    *)
(* into: arrival (up to the await), the resumption after the await, and    *)
(* then the synchronous steps of the handler, one action per statement     *)
(* group, all taken while the request holds the event loop.                *)
(*                                                                         *)
(* Abstractions.  An upload is described by its byte length and, when it   *)
(* is a decodable container, its frame count, sample rate and channels; a  *)
(* signal by its number of samples.  A model handle is the serial number   *)
(* of the constructor call that built it (None is 0).  A turn boundary is  *)
(* the floating-point value float(t) * 1000, given in ticks of             *)
(* 1/TicksPerMs millisecond (such dyadic values are exact in binary        *)
(* floating point); Inf stands for float('inf').  What the filesystem,     *)
(* the model hub and the models do is chosen nondeterministically.         *)
(***************************************************************************)
EXTENDS Integers, Sequences, FiniteSets, TLC

(* ------------------------------ bounds -------------------------------- *)

\* Request slots: the number of requests a process has in flight at once.
NumSlots == 2
\* Temporary files the filesystem holds before creating one more fails.
MaxFiles == 2
\* Failed constructor calls per model type before the hub stops failing.
MaxCtorFailures == 1
\* Turns the diarization model yields in one call (SpecShape).
MaxTurns == 3
\* Resolution of a turn boundary: ticks per millisecond.
TicksPerMs == 4

(* ------------------------- program constants -------------------------- *)

TARGET_SR == 16000
\* The literal 1600 of the length checks (bytes at ingress, samples in the
\* raw-PCM fallback).
MIN_LEN == 1600

None == 0
Slots == 1 .. NumSlots

(* ------------------------------ uploads ------------------------------- *)

NoUpload == [fmt |-> "none", nbytes |-> 0, frames |-> 0, sr |-> 0, ch |-> 0]

\* A WAV container (16-bit PCM, 44-byte header) and a headerless byte string.
Wav(frames, sr, ch) ==
    [fmt |-> "wav", nbytes |-> 44 + 2 * frames * ch, frames |-> frames,
     sr |-> sr, ch |-> ch]
Raw(nbytes) == [fmt |-> "raw", nbytes |-> nbytes, frames |-> 0, sr |-> 0, ch |-> 0]

\* The uploads a client sends: a 0.2 s mono WAV at the target rate; a WAV of
\* 100 frames (244 bytes); a 48 kHz stereo WAV of 3000 frames (12044 bytes,
\* 1000 samples once resampled); raw PCM of 3200 samples; raw PCM of 500
\* bytes; raw PCM of exactly 1600 bytes (800 samples); raw PCM of odd length.
Uploads ==
    { Wav(3200, 16000, 1), Wav(100, 16000, 1), Wav(3000, 48000, 2),
      Raw(6400), Raw(500), Raw(1600), Raw(3201) }

\* The pairs /verify is sent are drawn from these four.
VerifyUploads == { Wav(3200, 16000, 1), Wav(100, 16000, 1), Raw(6400), Raw(500) }

\* The uploads of the shaping specification: one well-formed WAV.
ShapeUploads == { Wav(3200, 16000, 1) }

(* --------------------------- audio decoding --------------------------- *)

\* sf.read(io.BytesIO(raw), dtype="float32"): decodes a container, raises on
\* anything else.
SfRead(raw) ==
    IF raw.fmt = "wav"
    THEN [ok |-> TRUE, frames |-> raw.frames, sr |-> raw.sr,
          ndim |-> IF raw.ch = 1 THEN 1 ELSE 2]
    ELSE [ok |-> FALSE, frames |-> 0, sr |-> 0, ndim |-> 0]

\* torchaudio.functional.resample(t, orig, new): ceil(n * new / orig) samples.
Resample(n, orig, new) == (n * new + orig - 1) \div orig

\* wav.mean(axis=1) keeps the frame count; the resample when sr # TARGET_SR.
MonoAtTarget(dec) ==
    IF dec.sr # TARGET_SR THEN Resample(dec.frames, dec.sr, TARGET_SR)
    ELSE dec.frames

HTTPException(code, detail) ==
    [type |-> "HTTPException", status_code |-> code, detail |-> detail]
Exception(detail) == [type |-> "Exception", status_code |-> 0, detail |-> detail]
NoExc == [type |-> "none", status_code |-> 0, detail |-> ""]

\* _audio_to_tensor(raw, sample_rate_hint): the container path, and on any
\* failure of it the raw 16-bit PCM fallback.  The result is the signal's
\* sample count, or the HTTPException raised.
AudioToTensor(raw, sample_rate_hint) ==
    LET dec == SfRead(raw) IN
    IF dec.ok
    THEN [ok |-> TRUE, samples |-> MonoAtTarget(dec), exc |-> NoExc]
    ELSE IF raw.nbytes % 2 # 0
    THEN [ok |-> FALSE, samples |-> 0,
          exc |-> HTTPException(400, "Could not parse audio: buffer size")]
    ELSE IF raw.nbytes \div 2 < MIN_LEN
    THEN [ok |-> FALSE, samples |-> 0,
          exc |-> HTTPException(400, "Could not parse audio: too short")]
    ELSE [ok |-> TRUE,
          samples |-> IF sample_rate_hint # TARGET_SR
                      THEN Resample(raw.nbytes \div 2, sample_rate_hint, TARGET_SR)
                      ELSE raw.nbytes \div 2,
          exc |-> NoExc]

(* --------------------------- response shaping ------------------------- *)

Inf == 1000000

Max(a, b) == IF b > a THEN b ELSE a

\* round(x) of Python 3 on the float x = ticks / TicksPerMs, x >= 0: to the
\* nearest integer, a tie to the even neighbour.
\* (RoundHalfUp is the faulty variant that sends every tie upwards.)
RoundHalfUp(ticks) == (2 * ticks + TicksPerMs) \div (2 * TicksPerMs)
Round(ticks) ==
    LET n == ticks \div TicksPerMs
        r == ticks % TicksPerMs
    IN  IF 2 * r < TicksPerMs THEN n
        ELSE IF 2 * r > TicksPerMs THEN n + 1
        ELSE IF n % 2 = 0 THEN n ELSE n + 1

\* int(round(max(0.0, float(t)) * 1000)); int() of an infinity raises.
Raises(t) == Max(0, t) >= Inf
ToMs(t) == Round(Max(0, t))

\* f"S{speaker_index}"  (LabelConst is the faulty variant that ignores the
\* index.)
LabelConst(speaker_index) == "S0"
Label(speaker_index) == "S" \o ToString(speaker_index)

\* Lines 104-106: a speaker not yet in speaker_map gets the next label.
MapSpeaker(speaker_map, speaker_index, speaker) ==
    IF speaker \in DOMAIN speaker_map THEN speaker_map
    ELSE [s \in DOMAIN speaker_map \cup {speaker} |->
            IF s = speaker THEN Label(speaker_index) ELSE speaker_map[s]]
NextIndex(speaker_map, speaker_index, speaker) ==
    IF speaker \in DOMAIN speaker_map THEN speaker_index ELSE speaker_index + 1

\* Lines 107-113: the segment appended for one turn.
Segment(speaker_map, turn) ==
    [speaker |-> speaker_map[turn.speaker],
     start_ms |-> ToMs(turn.start), end_ms |-> ToMs(turn.end)]

\* The sort key (seg["start_ms"], seg["end_ms"]), compared as Python tuples.
\* (KeyLessStartOnly is the faulty variant whose key is start_ms alone.)
KeyLessStartOnly(a, b) == a.start_ms < b.start_ms
KeyLess(a, b) ==
    \/ a.start_ms < b.start_ms
    \/ a.start_ms = b.start_ms /\ a.end_ms < b.end_ms

\* list.sort(key=...): a stable sort, here by insertion from the left.
RECURSIVE InsertSorted(_, _)
InsertSorted(sorted, x) ==
    IF sorted = <<>> THEN <<x>>
    ELSE IF KeyLess(x, sorted[Len(sorted)])
    THEN Append(InsertSorted(SubSeq(sorted, 1, Len(sorted) - 1), x),
                sorted[Len(sorted)])
    ELSE Append(sorted, x)

RECURSIVE SortSegments(_)
SortSegments(segments) ==
    IF segments = <<>> THEN <<>>
    ELSE InsertSorted(SortSegments(SubSeq(segments, 1, Len(segments) - 1)),
                      segments[Len(segments)])

\* (segments[-1]["end_ms"] / 1000.0) if segments else 0.0, as a fraction.
\* (DurationSecFirst is the faulty variant that reads segments[0].)
DurationSecFirst(segments) ==
    IF segments # <<>> THEN [num |-> segments[1].end_ms, den |-> 1000]
    ELSE [num |-> 0, den |-> 1]
DurationSec(segments) ==
    IF segments # <<>> THEN [num |-> segments[Len(segments)].end_ms, den |-> 1000]
    ELSE [num |-> 0, den |-> 1]

(* ------------------------- the model's output ------------------------- *)

Turn(start, end, speaker) == [start |-> start, end |-> end, speaker |-> speaker]

Speakers == {"SPEAKER_00", "SPEAKER_01", "SPEAKER_02"}

\* Boundaries in ticks: a negative one, a value off every tie (1.25 ms at
\* four ticks per millisecond) and two ties (2.5 ms and 3.5 ms).
ShapeTimes == {-3, 5, 10, 14}
ShapeTurns ==
    { t \in { Turn(s, e, sp) : s \in ShapeTimes, e \in ShapeTimes, sp \in Speakers } :
        t.start < t.end }
ShapeTurnSeqs == UNION { [1 .. n -> ShapeTurns] : n \in 0 .. MaxTurns }

\* What the pipeline yields in the service specification: nothing; the two
\* turns of the module docstring; a turn nested in an earlier, longer one,
\* out of order; three speakers; a turn with an infinite end.
ServiceTurnSeqs ==
    { <<>>,
      <<Turn(0, 1400 * TicksPerMs, "SPEAKER_00"),
        Turn(1500 * TicksPerMs, 3900 * TicksPerMs, "SPEAKER_01")>>,
      <<Turn(4, 8, "SPEAKER_01"), Turn(0, 20, "SPEAKER_00")>>,
      <<Turn(2, 6, "SPEAKER_02"), Turn(6, 10, "SPEAKER_00"),
        Turn(10, 14, "SPEAKER_02")>>,
      <<Turn(0, Inf, "SPEAKER_00")>> }

(* ------------------------------- state -------------------------------- *)

VARIABLES
    service,        \* which program this process runs: "embedder" | "diarizer"
    environ,        \* os.environ: the three token variables
    cuda,           \* torch.cuda.is_available()
    faults,         \* whether the filesystem, the hub and the models may fail
    running,        \* the request holding the event loop, or None
    req,            \* per slot: the handler's position and its locals
    files,          \* the temporary files that exist
    _classifier,    \* module global of speaker_embedder/app.py
    _verification,  \* module global of speaker_embedder/app.py
    _pipeline,      \* module global of pyannote/app.py
    constructed,    \* history: constructor calls per model type
    built,          \* history: constructor calls that returned, per model type
    issued,         \* history: handles returned by _load_*, per model type
    lastHealth      \* status of the last GET /health, 0 before the first

vars == <<service, environ, cuda, faults, running, req, files, _classifier,
          _verification, _pipeline, constructed, built, issued, lastHealth>>

ModelTypes == {"classifier", "verification", "pipeline"}

Env(a, b, c) ==
    [PYANNOTE_AUTH_TOKEN |-> a, HF_TOKEN |-> b, HUGGINGFACE_TOKEN |-> c]
\* No token; the first name set; only the last name set; the first name set
\* to white space and the second to a token.
Environs ==
    { Env("", "", ""), Env("hf_a", "", ""), Env("", "", "hf_c"),
      Env(" ", "hf_b", "") }

\* The locals of a handler that has not started.
Idle ==
    [pc |-> "idle", endpoint |-> "none", raw1 |-> NoUpload, raw2 |-> NoUpload,
     sig1 |-> -1, sig2 |-> -1, f1_path |-> None, f2_path |-> None,
     wav_path |-> None, model |-> None, cached |-> FALSE, diarization |-> <<>>,
     speaker_map |-> <<>>, speaker_index |-> 0, segments |-> <<>>,
     duration_sec |-> [num |-> 0, den |-> 1], speaker_count |-> 0,
     raised |-> NoExc, exc |-> NoExc, status |-> 0, created |-> {}, log |-> <<>>]

TypeOK ==
    /\ service \in {"embedder", "diarizer"}
    /\ running \in Slots \cup {None}
    /\ DOMAIN req = Slots
    /\ files \subseteq 1 .. MaxFiles

InitProcess ==
    /\ running = None
    /\ req = [r \in Slots |-> Idle]
    /\ files = {}
    /\ _classifier = None
    /\ _verification = None
    /\ _pipeline = None
    /\ constructed = [t \in ModelTypes |-> 0]
    /\ built = [t \in ModelTypes |-> 0]
    /\ issued = [t \in ModelTypes |-> {}]
    /\ lastHealth = 0

\* The state after the module is imported.  The embedder reads neither the
\* token variables nor, in any way the model sees, the device.
Init ==
    /\ InitProcess
    /\ faults = TRUE
    /\ \/ service = "embedder" /\ environ = Env("", "", "") /\ cuda = FALSE
       \/ service = "diarizer" /\ environ \in Environs /\ cuda \in BOOLEAN

\* Either service in an environment where nothing fails and the diarizer
\* has its token.
InitQuiet ==
    /\ InitProcess
    /\ faults = FALSE
    /\ \/ service = "embedder" /\ environ = Env("", "", "") /\ cuda = FALSE
       \/ /\ service = "diarizer" /\ cuda \in BOOLEAN
          /\ environ \in {Env("hf_a", "", ""), Env("", "", "hf_c")}

\* The diarizer in an environment where nothing fails.
InitShape ==
    /\ InitProcess
    /\ faults = FALSE
    /\ service = "diarizer"
    /\ environ = Env("hf_a", "", "")
    /\ cuda = FALSE

(* ------------------------------ helpers ------------------------------- *)

Outcomes == IF faults THEN BOOLEAN ELSE {TRUE}

\* Starlette's answer to what a handler raises: an HTTPException's own
\* status, 500 for anything else.
StatusOf(exc) ==
    IF exc.type = "none" THEN 200
    ELSE IF exc.type = "HTTPException" THEN exc.status_code
    ELSE 500

\* A raise outside any try/finally: the request ends with the error.
\* (raised keeps what was raised first, exc what is propagating.)
Fail(rec, exc) ==
    [rec EXCEPT !.pc = "done", !.raised = exc, !.exc = exc, !.status = StatusOf(exc)]

\* A raise inside the try of /verify or /diarize: on to the finally clause.
Raise(rec, exc) == [rec EXCEPT !.pc = "finally", !.raised = exc, !.exc = exc]

Logged(rec, event) == [rec EXCEPT !.log = Append(@, event)]

\* tempfile.NamedTemporaryFile(delete=False): a name no file has.
NewPath == CHOOSE p \in 1 .. MaxFiles : p \notin files /\ \A q \in 1 .. (p - 1) : q \in files
TmpOutcomes ==
    (IF Cardinality(files) < MaxFiles THEN {TRUE} ELSE {})
        \cup (IF faults \/ Cardinality(files) >= MaxFiles THEN {FALSE} ELSE {})

\* if p and os.path.exists(p): try: os.unlink(p) except Exception: pass
Unlink(fs, p, ok) == IF p # None /\ p \in fs /\ ok THEN fs \ {p} ELSE fs

\* _auth_token(): the first non-empty variable, stripped.
Strip(s) == IF s = " " THEN "" ELSE s
AuthToken ==
    Strip(IF environ.PYANNOTE_AUTH_TOKEN # "" THEN environ.PYANNOTE_AUTH_TOKEN
          ELSE IF environ.HF_TOKEN # "" THEN environ.HF_TOKEN
          ELSE IF environ.HUGGINGFACE_TOKEN # "" THEN environ.HUGGINGFACE_TOKEN
          ELSE "")

\* `if _classifier is None:` (and the same test of the other two globals).
\* (IsNoneAlways is the faulty variant that never sees the cache.)
IsNoneAlways(cache) == TRUE
IsNone(cache) == cache = None

CtorOutcomes(t) ==
    IF faults /\ constructed[t] - built[t] < MaxCtorFailures
    THEN {"ok", "raise"} ELSE {"ok"}

\* _load_classifier / _load_verification: construct on first use, cache.
\* serial is the number of constructor calls so far; the new instance is
\* named by the next one.
LoadModel(cache, serial, outcome) ==
    IF ~IsNone(cache)
    THEN [cache |-> cache, ret |-> cache, exc |-> NoExc, ran |-> 0, ok |-> 0]
    ELSE IF outcome = "ok"
    THEN [cache |-> serial + 1, ret |-> serial + 1, exc |-> NoExc,
          ran |-> 1, ok |-> 1]
    ELSE [cache |-> cache, ret |-> None, exc |-> Exception("from_hparams failed"),
          ran |-> 1, ok |-> 0]

\* _load_pipeline: the token check, the construction, the move to the GPU
\* (after the global is assigned).  Pipeline.from_pretrained returns the
\* pipeline, raises, or returns None (what it does when the hub refuses the
\* download); None is assigned like any result and has no method `to`.
LoadPipeline(cache, serial, token, outcome, to_ok) ==
    IF ~IsNone(cache)
    THEN [cache |-> cache, ret |-> cache, exc |-> NoExc, ran |-> 0, ok |-> 0]
    ELSE IF token = ""
    THEN [cache |-> cache, ret |-> None,
          exc |-> Exception("Missing Hugging Face token."), ran |-> 0, ok |-> 0]
    ELSE IF outcome = "raise"
    THEN [cache |-> cache, ret |-> None,
          exc |-> Exception("from_pretrained failed"), ran |-> 1, ok |-> 0]
    ELSE IF outcome = "none"
    THEN [cache |-> None, ret |-> None,
          exc |-> IF cuda THEN Exception("'NoneType' object has no attribute 'to'")
                  ELSE NoExc,
          ran |-> 1, ok |-> 0]
    ELSE IF cuda /\ ~to_ok
    THEN [cache |-> serial + 1, ret |-> None, exc |-> Exception("to(cuda) failed"),
          ran |-> 1, ok |-> 1]
    ELSE [cache |-> serial + 1, ret |-> serial + 1, exc |-> NoExc,
          ran |-> 1, ok |-> 1]

\* The histories after a _load_* call of model type t with result res.
Recorded(t, res) ==
    /\ constructed' = [constructed EXCEPT ![t] = @ + res.ran]
    /\ built' = [built EXCEPT ![t] = @ + res.ok]
    /\ issued' = [issued EXCEPT ![t] = IF res.ret # None THEN @ \cup {res.ret} ELSE @]

(* ------------------------ arrival and return -------------------------- *)

Endpoints == IF service = "embedder" THEN {"embed", "verify"} ELSE {"diarize"}

\* The server starts the handler coroutine, which runs to its first await
\* (request.form() / request.body() / audio1.read()).
Arrive(r, endpoint) ==
    /\ running = None
    /\ req[r].pc = "idle"
    /\ endpoint \in Endpoints
    /\ req' = [req EXCEPT ![r] = [Idle EXCEPT !.pc = "await", !.endpoint = endpoint]]
    /\ UNCHANGED <<service, environ, cuda, faults, running, files, _classifier,
                   _verification, _pipeline, constructed, built, issued, lastHealth>>

\* The response is sent and the coroutine's frame is dropped.
Return(r) ==
    /\ running = r
    /\ req[r].pc = "done"
    /\ req' = [req EXCEPT ![r] = Idle]
    /\ running' = None
    /\ UNCHANGED <<service, environ, cuda, faults, files, _classifier,
                   _verification, _pipeline, constructed, built, issued, lastHealth>>

\* GET /health of either service: a constant answer.
Health ==
    /\ lastHealth' = 200
    /\ UNCHANGED <<service, environ, cuda, faults, running, req, files, _classifier,
                   _verification, _pipeline, constructed, built, issued>>

Resumes(r, endpoint) ==
    /\ running = None
    /\ req[r].pc = "await"
    /\ req[r].endpoint = endpoint
    /\ running' = r

At(r, endpoint, pc) ==
    /\ running = r
    /\ req[r].endpoint = endpoint
    /\ req[r].pc = pc

(* ------------------------------- /embed ------------------------------- *)

\* Lines 93-103: the body, or the multipart field "audio"/"file"; the byte
\* length check.
EmbedReceive(r) ==
    /\ Resumes(r, "embed")
    /\ \E ingress \in {"body", "multipart", "no_file"}, raw \in Uploads :
         req' = [req EXCEPT ![r] =
            IF ingress = "no_file"
            THEN Fail(@, HTTPException(400, "Multipart form must include 'audio' file"))
            ELSE IF raw.nbytes < MIN_LEN
            THEN Fail([@ EXCEPT !.raw1 = raw],
                      HTTPException(400, "Audio too short (need at least ~0.1s)"))
            ELSE [@ EXCEPT !.raw1 = raw, !.pc = "normalize"]]
    /\ UNCHANGED <<service, environ, cuda, faults, files, _classifier,
                   _verification, _pipeline, constructed, built, issued, lastHealth>>

\* Lines 104-109.
EmbedNormalize(r) ==
    /\ At(r, "embed", "normalize")
    /\ LET res == AudioToTensor(req[r].raw1, 16000)
           rec == Logged(req[r], "normalize")
       IN  req' = [req EXCEPT ![r] =
              IF res.ok THEN [rec EXCEPT !.sig1 = res.samples, !.pc = "load"]
              ELSE Fail(rec, res.exc)]
    /\ UNCHANGED <<service, environ, cuda, faults, running, files, _classifier,
                   _verification, _pipeline, constructed, built, issued, lastHealth>>

\* Line 110.
EmbedLoad(r) ==
    /\ At(r, "embed", "load")
    /\ \E outcome \in CtorOutcomes("classifier") :
         LET res == LoadModel(_classifier, constructed["classifier"], outcome)
             rec == Logged(req[r], IF res.ran = 1 THEN "construct" ELSE "load")
         IN  /\ _classifier' = res.cache
             /\ Recorded("classifier", res)
             /\ req' = [req EXCEPT ![r] =
                   IF res.exc = NoExc
                   THEN [rec EXCEPT !.model = res.ret, !.cached = (res.ran = 0),
                                    !.pc = "invoke"]
                   ELSE Fail(rec, res.exc)]
    /\ UNCHANGED <<service, environ, cuda, faults, running, files,
                   _verification, _pipeline, lastHealth>>

\* Lines 111-114: encode_batch, then the response.
EmbedEncode(r) ==
    /\ At(r, "embed", "invoke")
    /\ \E ok \in Outcomes :
         LET rec == Logged(req[r], "invoke") IN
         req' = [req EXCEPT ![r] =
            IF ok THEN [Logged(Logged(rec, "shape"), "respond")
                          EXCEPT !.pc = "done", !.status = 200]
            ELSE Fail(rec, Exception("encode_batch failed"))]
    /\ UNCHANGED <<service, environ, cuda, faults, running, files, _classifier,
                   _verification, _pipeline, constructed, built, issued, lastHealth>>

(* ------------------------------- /verify ------------------------------ *)

\* Lines 126-127: both uploads are read.
VerifyReceive(r) ==
    /\ Resumes(r, "verify")
    /\ \E raw1 \in VerifyUploads, raw2 \in VerifyUploads :
         req' = [req EXCEPT ![r] = [@ EXCEPT !.raw1 = raw1, !.raw2 = raw2,
                                             !.pc = "normalize"]]
    /\ UNCHANGED <<service, environ, cuda, faults, files, _classifier,
                   _verification, _pipeline, constructed, built, issued, lastHealth>>

\* Lines 128-133: sig1, then sig2; an HTTPException of either ends the request.
\* (VerifyNormalizeFirstOnly is the faulty variant that goes on to the
\* temporary files with audio2 not yet normalized.)
VerifyNormalizeFirstOnly(r) ==
    /\ At(r, "verify", "normalize")
    /\ LET res1 == AudioToTensor(req[r].raw1, 16000)
           rec1 == Logged(req[r], "normalize")
       IN  req' = [req EXCEPT ![r] =
              IF ~res1.ok THEN Fail(rec1, res1.exc)
              ELSE [rec1 EXCEPT !.sig1 = res1.samples, !.pc = "write1"]]
    /\ UNCHANGED <<service, environ, cuda, faults, running, files, _classifier,
                   _verification, _pipeline, constructed, built, issued, lastHealth>>
VerifyNormalize(r) ==
    /\ At(r, "verify", "normalize")
    /\ LET res1 == AudioToTensor(req[r].raw1, 16000)
           res2 == AudioToTensor(req[r].raw2, 16000)
           rec1 == Logged(req[r], "normalize")
           rec2 == Logged(rec1, "normalize")
       IN  req' = [req EXCEPT ![r] =
              IF ~res1.ok THEN Fail(rec1, res1.exc)
              ELSE IF ~res2.ok THEN Fail([rec2 EXCEPT !.sig1 = res1.samples], res2.exc)
              ELSE [rec2 EXCEPT !.sig1 = res1.samples, !.sig2 = res2.samples,
                                !.pc = "write1"]]
    /\ UNCHANGED <<service, environ, cuda, faults, running, files, _classifier,
                   _verification, _pipeline, constructed, built, issued, lastHealth>>

\* Lines 136-138 (which = 1) and 139-141 (which = 2): the temporary file is
\* created, its name is kept, the signal is written into it.
VerifyWriteFile(r, which) ==
    /\ At(r, "verify", IF which = 1 THEN "write1" ELSE "write2")
    /\ \E tmp_ok \in TmpOutcomes, write_ok \in Outcomes :
         IF ~tmp_ok
         THEN /\ req' = [req EXCEPT ![r] = Raise(@, Exception("NamedTemporaryFile failed"))]
              /\ UNCHANGED files
         ELSE LET named == IF which = 1 THEN [req[r] EXCEPT !.f1_path = NewPath]
                           ELSE [req[r] EXCEPT !.f2_path = NewPath]
                  rec == Logged([named EXCEPT !.created = @ \cup {NewPath}], "tmpfile")
              IN  /\ files' = files \cup {NewPath}
                  /\ req' = [req EXCEPT ![r] =
                        IF write_ok
                        THEN [rec EXCEPT !.pc = IF which = 1 THEN "write2" ELSE "load"]
                        ELSE Raise(rec, Exception("sf.write failed"))]
    /\ UNCHANGED <<service, environ, cuda, faults, running, _classifier,
                   _verification, _pipeline, constructed, built, issued, lastHealth>>

\* Line 142.
VerifyLoad(r) ==
    /\ At(r, "verify", "load")
    /\ \E outcome \in CtorOutcomes("verification") :
         LET res == LoadModel(_verification, constructed["verification"], outcome)
             rec == Logged(req[r], IF res.ran = 1 THEN "construct" ELSE "load")
         IN  /\ _verification' = res.cache
             /\ Recorded("verification", res)
             /\ req' = [req EXCEPT ![r] =
                   IF res.exc = NoExc
                   THEN [rec EXCEPT !.model = res.ret, !.cached = (res.ran = 0),
                                    !.pc = "invoke"]
                   ELSE Raise(rec, res.exc)]
    /\ UNCHANGED <<service, environ, cuda, faults, running, files,
                   _classifier, _pipeline, lastHealth>>

\* Lines 143-145: verify_files, then the response.
VerifyInvoke(r) ==
    /\ At(r, "verify", "invoke")
    /\ \E ok \in Outcomes :
         LET rec == Logged(req[r], "invoke") IN
         req' = [req EXCEPT ![r] =
            IF ok THEN [Logged(Logged(rec, "shape"), "respond") EXCEPT !.pc = "finally"]
            ELSE Raise(rec, Exception("verify_files failed"))]
    /\ UNCHANGED <<service, environ, cuda, faults, running, files, _classifier,
                   _verification, _pipeline, constructed, built, issued, lastHealth>>

\* Lines 146-152: both names are unlinked, an unlink that fails is ignored.
VerifyFinally(r) ==
    /\ At(r, "verify", "finally")
    /\ \E ok1 \in Outcomes, ok2 \in Outcomes :
         files' = Unlink(Unlink(files, req[r].f1_path, ok1), req[r].f2_path, ok2)
    /\ req' = [req EXCEPT ![r] = [@ EXCEPT !.pc = "done", !.status = StatusOf(req[r].exc)]]
    /\ UNCHANGED <<service, environ, cuda, faults, running, _classifier,
                   _verification, _pipeline, constructed, built, issued, lastHealth>>

(* ------------------------------ /diarize ------------------------------ *)

\* Lines 89-91: the body and the byte length check, before the try.
DiarizeReceive(r, uploads) ==
    /\ Resumes(r, "diarize")
    /\ \E raw \in uploads :
         req' = [req EXCEPT ![r] =
            IF raw.nbytes < MIN_LEN
            THEN Fail([@ EXCEPT !.raw1 = raw], HTTPException(400, "Audio too short."))
            ELSE [@ EXCEPT !.raw1 = raw, !.pc = "normalize"]]
    /\ UNCHANGED <<service, environ, cuda, faults, files, _classifier,
                   _verification, _pipeline, constructed, built, issued, lastHealth>>

\* Line 95, wav_path = _normalize_audio(raw) (lines 60-79): decode, mono,
\* resample; the temporary file is created and closed, then written; the
\* name reaches wav_path only when _normalize_audio returns.
DiarizeNormalize(r) ==
    /\ At(r, "diarize", "normalize")
    /\ LET dec == SfRead(req[r].raw1)
           rec == Logged(req[r], "normalize")
       IN  IF ~dec.ok
           THEN /\ req' = [req EXCEPT ![r] =
                      Raise(rec, HTTPException(400, "Could not parse audio bytes"))]
                /\ UNCHANGED files
           ELSE \E tmp_ok \in TmpOutcomes, write_ok \in Outcomes :
                  LET sig == [rec EXCEPT !.sig1 = MonoAtTarget(dec)] IN
                  IF ~tmp_ok
                  THEN /\ req' = [req EXCEPT ![r] =
                             Raise(sig, Exception("NamedTemporaryFile failed"))]
                       /\ UNCHANGED files
                  ELSE LET made == Logged([sig EXCEPT !.created = @ \cup {NewPath}],
                                          "tmpfile")
                       IN  /\ files' = files \cup {NewPath}
                           /\ req' = [req EXCEPT ![r] =
                                 IF write_ok
                                 THEN [made EXCEPT !.wav_path = NewPath, !.pc = "load"]
                                 ELSE Raise(made, Exception("sf.write failed"))]
    /\ UNCHANGED <<service, environ, cuda, faults, running, _classifier,
                   _verification, _pipeline, constructed, built, issued, lastHealth>>

\* Line 96.
DiarizeLoad(r) ==
    /\ At(r, "diarize", "load")
    /\ \E outcome \in CtorOutcomes("pipeline")
                       \cup (IF "raise" \in CtorOutcomes("pipeline") THEN {"none"} ELSE {}),
          to_ok \in Outcomes :
         LET res == LoadPipeline(_pipeline, constructed["pipeline"], AuthToken,
                                 outcome, to_ok)
             rec == Logged(req[r], IF res.ran = 1 THEN "construct" ELSE "load")
         IN  /\ _pipeline' = res.cache
             /\ Recorded("pipeline", res)
             /\ req' = [req EXCEPT ![r] =
                   IF res.exc = NoExc
                   THEN [rec EXCEPT !.model = res.ret, !.cached = (res.ran = 0),
                                    !.pc = "invoke"]
                   ELSE Raise(rec, res.exc)]
    /\ UNCHANGED <<service, environ, cuda, faults, running, files,
                   _classifier, _verification, lastHealth>>

\* Lines 97-101: the pipeline runs on the file (calling None raises); the
\* locals of the shaping.
DiarizeInvoke(r, outputs) ==
    /\ At(r, "diarize", "invoke")
    /\ \E ok \in Outcomes, diarization \in outputs :
         LET rec == Logged(req[r], "invoke") IN
         req' = [req EXCEPT ![r] =
            IF req[r].model = None
            THEN Raise(rec, Exception("'NoneType' object is not callable"))
            ELSE IF ok THEN [rec EXCEPT !.diarization = diarization, !.speaker_map = <<>>,
                                   !.segments = <<>>, !.speaker_index = 0,
                                   !.pc = "loop"]
            ELSE Raise(rec, Exception("pipeline failed"))]
    /\ UNCHANGED <<service, environ, cuda, faults, running, files, _classifier,
                   _verification, _pipeline, constructed, built, issued, lastHealth>>

\* Lines 103-113: one iteration of the loop over the turns.
DiarizeLoop(r) ==
    /\ At(r, "diarize", "loop")
    /\ Len(req[r].segments) < Len(req[r].diarization)
    /\ LET turn == req[r].diarization[Len(req[r].segments) + 1]
           map == MapSpeaker(req[r].speaker_map, req[r].speaker_index, turn.speaker)
           idx == NextIndex(req[r].speaker_map, req[r].speaker_index, turn.speaker)
           rec == [req[r] EXCEPT !.speaker_map = map, !.speaker_index = idx]
       IN  req' = [req EXCEPT ![r] =
              IF Raises(turn.start) \/ Raises(turn.end)
              THEN Raise(rec, Exception("OverflowError"))
              ELSE [rec EXCEPT !.segments = Append(@, Segment(map, turn))]]
    /\ UNCHANGED <<service, environ, cuda, faults, running, files, _classifier,
                   _verification, _pipeline, constructed, built, issued, lastHealth>>

\* Lines 115-116, once the loop is exhausted.
DiarizeSort(r) ==
    /\ At(r, "diarize", "loop")
    /\ Len(req[r].segments) = Len(req[r].diarization)
    /\ LET sorted == SortSegments(req[r].segments) IN
       req' = [req EXCEPT ![r] =
          [Logged(@, "shape") EXCEPT !.segments = sorted,
                                     !.duration_sec = DurationSec(sorted),
                                     !.pc = "respond"]]
    /\ UNCHANGED <<service, environ, cuda, faults, running, files, _classifier,
                   _verification, _pipeline, constructed, built, issued, lastHealth>>

\* Lines 118-124: the response is built and returned (through the finally).
DiarizeRespond(r) ==
    /\ At(r, "diarize", "respond")
    /\ req' = [req EXCEPT ![r] =
          [Logged(@, "respond") EXCEPT
              !.speaker_count = Cardinality(DOMAIN req[r].speaker_map),
              !.pc = "finally"]]
    /\ UNCHANGED <<service, environ, cuda, faults, running, files, _classifier,
                   _verification, _pipeline, constructed, built, issued, lastHealth>>

\* Lines 125-128: an HTTPException passes, anything else becomes a 500
\* carrying its message.  (DiarizeExceptAll500 is the faulty variant without
\* the `except HTTPException: raise` clause.)
DiarizeExceptAll500(exc) ==
    IF exc.type = "none" THEN exc ELSE HTTPException(500, exc.detail)
DiarizeExcept(exc) ==
    IF exc.type = "Exception" THEN HTTPException(500, exc.detail) ELSE exc

\* Lines 129-134, after the except clauses.
DiarizeFinally(r) ==
    /\ At(r, "diarize", "finally")
    /\ \E ok \in Outcomes : files' = Unlink(files, req[r].wav_path, ok)
    /\ req' = [req EXCEPT ![r] =
          [@ EXCEPT !.pc = "done", !.exc = DiarizeExcept(req[r].exc),
                    !.status = StatusOf(DiarizeExcept(req[r].exc))]]
    /\ UNCHANGED <<service, environ, cuda, faults, running, _classifier,
                   _verification, _pipeline, constructed, built, issued, lastHealth>>

(* --------------------------- specifications --------------------------- *)

Next ==
    \/ Health
    \/ \E r \in Slots :
         \/ \E endpoint \in {"embed", "verify", "diarize"} : Arrive(r, endpoint)
         \/ EmbedReceive(r)
         \/ EmbedNormalize(r)
         \/ EmbedLoad(r)
         \/ EmbedEncode(r)
         \/ VerifyReceive(r)
         \/ VerifyNormalize(r)
         \/ \E which \in {1, 2} : VerifyWriteFile(r, which)
         \/ VerifyLoad(r)
         \/ VerifyInvoke(r)
         \/ VerifyFinally(r)
         \/ DiarizeReceive(r, Uploads)
         \/ DiarizeNormalize(r)
         \/ DiarizeLoad(r)
         \/ DiarizeInvoke(r, ServiceTurnSeqs)
         \/ DiarizeLoop(r)
         \/ DiarizeSort(r)
         \/ DiarizeRespond(r)
         \/ DiarizeFinally(r)
         \/ Return(r)

\* Either service, with every fault the environment can produce.
Spec == Init /\ [][Next]_vars

\* Either service, configured, while the filesystem, the hub and the models
\* work.
SpecQuiet == InitQuiet /\ [][Next]_vars

NextShape ==
    \/ Arrive(1, "diarize")
    \/ DiarizeReceive(1, ShapeUploads)
    \/ DiarizeNormalize(1)
    \/ DiarizeLoad(1)
    \/ DiarizeInvoke(1, ShapeTurnSeqs)
    \/ DiarizeLoop(1)
    \/ DiarizeSort(1)
    \/ DiarizeRespond(1)
    \/ DiarizeFinally(1)
    \/ Return(1)

\* The diarizer serving one request after the other, the pipeline yielding
\* every sequence of at most MaxTurns turns.
SpecShape == InitShape /\ [][NextShape]_vars

(* ------------------------------ properties ---------------------------- *)

Done(r) == req[r].pc = "done"
Ok(r) == Done(r) /\ req[r].status = 200
Cache(t) ==
    IF t = "classifier" THEN _classifier
    ELSE IF t = "verification" THEN _verification ELSE _pipeline

\* C1 (as claimed): once a /verify or /diarize request has completed, with
\* whatever outcome, none of the temporary files it created exists.
C1_TempFilesRemoved ==
    \A r \in Slots :
        Done(r) /\ req[r].endpoint \in {"verify", "diarize"}
            => req[r].created \cap files = {}

\* C2 (as claimed): the constructor of each model type is executed at most
\* once over the life of the process.
C2_ConstructedAtMostOnce == \A t \in ModelTypes : constructed[t] <= 1

\* C2 (amended): for each model type the constructor yields an instance at
\* most once (a call that raises, or yields None, is repeated by the next
\* request); the cached handle is that instance from then on; every handle that
\* _load_classifier / _load_verification / _load_pipeline has returned, to
\* any request, is that one instance.
C2_SingleInstance ==
    /\ \A t \in ModelTypes :
          /\ built[t] <= 1
          /\ built[t] = 1 <=> Cache(t) # None
          /\ issued[t] \subseteq {Cache(t)} \ {None}
    /\ \A r \in Slots :
          req[r].model # None =>
              req[r].model = Cache(CASE req[r].endpoint = "embed" -> "classifier"
                                     [] req[r].endpoint = "verify" -> "verification"
                                     [] OTHER -> "pipeline")

\* A constructor call failed, a later one built the instance, and a request
\* after that was handed the cached instance.
C2_Witness ==
    \E r \in Slots, t \in ModelTypes :
        /\ constructed[t] >= 2 /\ built[t] = 1
        /\ req[r].cached /\ req[r].model = Cache(t)

\* C3 (as claimed): a request with an upload shorter than 1600 bytes, or
\* with a normalized signal shorter than 1600 samples, ends with status 400
\* and the model is never invoked for it.
C3_ShortAudioRejected ==
    \A r \in Slots :
        LET short(raw) == raw.fmt # "none" /\ raw.nbytes < MIN_LEN
            few(sig) == sig >= 0 /\ sig < MIN_LEN
            invoked == \E i \in DOMAIN req[r].log : req[r].log[i] = "invoke"
        IN  (short(req[r].raw1) \/ short(req[r].raw2)
                \/ few(req[r].sig1) \/ few(req[r].sig2))
            => /\ ~invoked
               /\ Done(r) => req[r].status = 400

\* A /verify request whose first upload is a 244-byte WAV of 100 frames has
\* had the verifier invoked on it.
C3_ShortReachesModel ==
    \E r \in Slots :
        /\ req[r].endpoint = "verify" /\ req[r].raw1.nbytes < MIN_LEN
        /\ \E i \in DOMAIN req[r].log : req[r].log[i] = "invoke"

(* The response of a /diarize call, and what it is computed from. *)

Turns(r) == req[r].diarization
Segs(r) == req[r].segments
Shaped(r) == req[r].endpoint = "diarize" /\ Ok(r)
\* The loop of lines 103-113 is running or has just ended: segments[k] is
\* the segment of the k-th turn.
Looping(r) == req[r].endpoint = "diarize" /\ req[r].pc = "loop"

\* C4: the segments of a successful /diarize response are sorted ascending
\* by (start_ms, end_ms), and there is exactly one segment per turn the
\* model yielded (as many segments with a given content as turns shaped to
\* that content).
C4_SegmentsSorted ==
    \A r \in Slots : Shaped(r) =>
        /\ \A k \in 1 .. Len(Segs(r)) - 1 :
              \/ Segs(r)[k].start_ms < Segs(r)[k + 1].start_ms
              \/ /\ Segs(r)[k].start_ms = Segs(r)[k + 1].start_ms
                 /\ Segs(r)[k].end_ms <= Segs(r)[k + 1].end_ms
        /\ Len(Segs(r)) = Len(Turns(r))
        /\ \A k \in DOMAIN Turns(r) :
              LET seg == Segment(req[r].speaker_map, Turns(r)[k]) IN
              Cardinality({j \in DOMAIN Segs(r) : Segs(r)[j] = seg})
                = Cardinality({j \in DOMAIN Turns(r) :
                                  Segment(req[r].speaker_map, Turns(r)[j]) = seg})

\* Three turns yielded latest first came back in ascending order.
C4_Witness ==
    \E r \in Slots :
        /\ Shaped(r) /\ Len(Turns(r)) = 3
        /\ Turns(r)[1].start > Turns(r)[2].start
        /\ Turns(r)[2].start > Turns(r)[3].start
        /\ Segs(r)[1].start_ms < Segs(r)[3].start_ms

\* The number of distinct raw speakers met before the first turn of speaker.
Rank(turns, speaker) ==
    LET first == CHOOSE k \in DOMAIN turns :
                    /\ turns[k].speaker = speaker
                    /\ \A j \in 1 .. (k - 1) : turns[j].speaker # speaker
    IN  Cardinality({turns[j].speaker : j \in 1 .. (first - 1)})

\* C5: within one /diarize call the k-th distinct raw speaker met in the
\* model's turn order is labelled "S<k>" (the first one "S0"), in every call
\* whatever the calls before it labelled: each segment appended by the loop
\* carries that label, and the response holds those labels and counts the
\* distinct speakers.
C5_FirstSeenLabels ==
    \A r \in Slots :
        /\ Looping(r) =>
              \A k \in DOMAIN Segs(r) :
                  Segs(r)[k].speaker
                    = "S" \o ToString(Rank(Turns(r), Turns(r)[k].speaker))
        /\ Shaped(r) =>
              /\ \A k \in DOMAIN Turns(r) :
                    req[r].speaker_map[Turns(r)[k].speaker]
                      = "S" \o ToString(Rank(Turns(r), Turns(r)[k].speaker))
              /\ \A j \in DOMAIN Segs(r) :
                    \E k \in DOMAIN Turns(r) :
                        Segs(r)[j] = Segment(req[r].speaker_map, Turns(r)[k])
              /\ req[r].speaker_count
                    = Cardinality({Turns(r)[k].speaker : k \in DOMAIN Turns(r)})

\* A call served by the pipeline an earlier call built: SPEAKER_02, met
\* first, is "S0", SPEAKER_00 is "S1", and SPEAKER_02 met again is "S0".
C5_Witness ==
    \E r \in Slots :
        /\ Shaped(r) /\ req[r].cached /\ Len(Turns(r)) = 3
        /\ Turns(r)[1].speaker = "SPEAKER_02"
        /\ Turns(r)[2].speaker = "SPEAKER_00"
        /\ Turns(r)[3].speaker = "SPEAKER_02"
        /\ req[r].speaker_map["SPEAKER_02"] = "S0"
        /\ req[r].speaker_map["SPEAKER_00"] = "S1"
        /\ req[r].speaker_count = 2

Nearest(ticks, m) ==
    /\ 2 * (TicksPerMs * m - ticks) <= TicksPerMs
    /\ 2 * (ticks - TicksPerMs * m) <= TicksPerMs
Tie(ticks, m) ==
    \/ 2 * (TicksPerMs * m - ticks) = TicksPerMs
    \/ 2 * (ticks - TicksPerMs * m) = TicksPerMs

\* C7 (as claimed): each emitted start_ms / end_ms is max(0, t) * 1000
\* rounded to the nearest integer, a tie away from zero, and is not negative.
C7_RoundHalfAway ==
    \A r \in Slots : Looping(r) =>
        \A k \in DOMAIN Segs(r) :
            \A b \in { <<Turns(r)[k].start, Segs(r)[k].start_ms>>,
                       <<Turns(r)[k].end, Segs(r)[k].end_ms>> } :
                /\ b[2] >= 0
                /\ Nearest(Max(0, b[1]), b[2])
                /\ Tie(Max(0, b[1]), b[2]) => TicksPerMs * b[2] > Max(0, b[1])

\* C7 (amended): each emitted start_ms / end_ms is max(0, t) * 1000 rounded
\* to the nearest integer, a tie to the even neighbour, and is not negative.
C7_RoundHalfEven ==
    \A r \in Slots : Looping(r) =>
        \A k \in DOMAIN Segs(r) :
            \A b \in { <<Turns(r)[k].start, Segs(r)[k].start_ms>>,
                       <<Turns(r)[k].end, Segs(r)[k].end_ms>> } :
                /\ b[2] >= 0
                /\ Nearest(Max(0, b[1]), b[2])
                /\ Tie(Max(0, b[1]), b[2]) => b[2] % 2 = 0

\* A turn from a negative start to an end of 2.5 ms became 0 .. 2, and one
\* from 1.25 ms to 3.5 ms became 1 .. 4.
C7_Witness ==
    \E r \in Slots :
        /\ Looping(r) /\ Len(Segs(r)) = 2
        /\ Turns(r)[1].start < 0 /\ 2 * Turns(r)[1].end = 5 * TicksPerMs
        /\ Segs(r)[1].start_ms = 0 /\ Segs(r)[1].end_ms = 2
        /\ 2 * Turns(r)[2].end = 7 * TicksPerMs
        /\ Segs(r)[2].start_ms = 1 /\ Segs(r)[2].end_ms = 4

\* C10 (as claimed): in a successful /diarize response duration_sec * 1000
\* is at least the end_ms of every segment.
C10_DurationCoversAll ==
    \A r \in Slots : Shaped(r) =>
        \A k \in DOMAIN Segs(r) :
            req[r].duration_sec.num * 1000
                >= Segs(r)[k].end_ms * req[r].duration_sec.den

\* C8: a failed /diarize request ends with 400 or 500: 400 when the body is
\* shorter than 1600 bytes or cannot be decoded, 500 with the underlying
\* message when anything else was raised (the missing token, the
\* construction, the invocation, the shaping); an HTTPException raised in
\* the handler keeps its status; without a token the process still starts
\* and /health still answers 200.
C8_DiarizeStatuses ==
    /\ lastHealth \in {0, 200}
    /\ \A r \in Slots : req[r].endpoint = "diarize" /\ Done(r) =>
          LET raw == req[r].raw1
              raised == req[r].raised
          IN  /\ req[r].status \in {200, 400, 500}
              /\ req[r].status = 200 <=> raised = NoExc
              /\ (raw.nbytes < MIN_LEN \/ raw.fmt # "wav") => req[r].status = 400
              /\ raised.type = "HTTPException" => req[r].status = raised.status_code
              /\ raised.type = "Exception" =>
                    /\ req[r].status = 500
                    /\ req[r].exc = HTTPException(500, raised.detail)
              /\ (req[r].wav_path # None /\ _pipeline = None /\ AuthToken = "") =>
                    /\ req[r].status = 500
                    /\ raised.detail = "Missing Hugging Face token."
              /\ raised.detail \in {"from_pretrained failed", "to(cuda) failed",
                                    "'NoneType' object has no attribute 'to'",
                                    "'NoneType' object is not callable",
                                    "pipeline failed", "OverflowError"}
                    => req[r].status = 500

\* In a process whose first token variable is white space: /health has
\* answered 200, and a /diarize request with a decodable body has ended with
\* 500 for the missing token.
C8_Witness ==
    /\ lastHealth = 200
    /\ environ.PYANNOTE_AUTH_TOKEN = " "
    /\ \E r \in Slots :
          /\ req[r].endpoint = "diarize" /\ Done(r)
          /\ req[r].status = 500
          /\ req[r].exc.detail = "Missing Hugging Face token."

StageOf(event) ==
    CASE event = "normalize" -> 1
      [] event = "tmpfile" -> 2
      [] event \in {"load", "construct"} -> 3
      [] event = "invoke" -> 4
      [] event = "shape" -> 5
      [] event = "respond" -> 6

NInputs(endpoint) == IF endpoint = "verify" THEN 2 ELSE 1

\* C9: the steps of a request occur in the order normalize -> (temporary
\* file) -> load -> invoke -> shape -> respond; a model is loaded,
\* constructed or invoked, and for /verify a temporary file is created, only
\* after every audio input of the request has been normalized, once each,
\* with success; a request whose validation failed ran nothing after it.
C9_StepOrder ==
    \A r \in Slots :
        LET log == req[r].log
            normalized == Cardinality({i \in DOMAIN log : log[i] = "normalize"})
            valid == /\ req[r].sig1 >= 0
                     /\ req[r].endpoint = "verify" => req[r].sig2 >= 0
        IN  /\ \A i \in DOMAIN log : \A j \in DOMAIN log :
                  i < j => StageOf(log[i]) <= StageOf(log[j])
            /\ normalized <= NInputs(req[r].endpoint)
            /\ \A i \in DOMAIN log :
                  (StageOf(log[i]) >= 3
                      \/ (log[i] = "tmpfile" /\ req[r].endpoint = "verify"))
                  => /\ valid
                     /\ Cardinality({j \in 1 .. (i - 1) : log[j] = "normalize"})
                          = NInputs(req[r].endpoint)
            /\ req[r].model # None => valid
            /\ (Done(r) /\ ~valid) =>
                  /\ req[r].status = 400
                  /\ \A i \in DOMAIN log : log[i] = "normalize"

\* A /verify request that answered 200 after all its steps, the verifier
\* constructed on its behalf.
C9_Witness ==
    \E r \in Slots :
        /\ req[r].endpoint = "verify" /\ Ok(r)
        /\ req[r].log = <<"normalize", "normalize", "tmpfile", "tmpfile",
                          "construct", "invoke", "shape", "respond">>

====
